---- MODULE Spec2Model ----
(***************************************************************************)
(* proto-templates: a parser for a small prototype-based configuration     *)
(* language (src/src/parse.rs) and the flattening engine that resolves     *)
(* the parsed objects into inheritance-free values (src/src/flat.rs).      *)
(*                                                                         *)
(* A source text is a sequence of one-character strings.  An Identifier is *)
(* modelled by its name (a sequence of characters), a Reference by the     *)
(* record [identifiers |-> <<name, ...>>].  Indices stored in a            *)
(* NamedObjects' lookup table are 0-based as in the Rust code; the object  *)
(* at index i is objects[i + 1].                                           *)
(***************************************************************************)
EXTENDS Naturals, Sequences, FiniteSets, TLC

VARIABLES source, pc, parsed, resolved

vars == <<source, pc, parsed, resolved>>

(***************************************************************************)
(* Result / Option values                                                  *)
(***************************************************************************)
Ok(v) == [ok |-> TRUE, value |-> v]

Err(e) == [ok |-> FALSE, error |-> e]

Some(v) == [some |-> TRUE, value |-> v]

None == [some |-> FALSE]

UnexpectedSymbol(expected, found) ==
    [type |-> "UnexpectedSymbol", expected |-> expected, found |-> found]

UnexpectedEndOfInput(expected) ==
    [type |-> "UnexpectedEndOfInput", expected |-> expected]

ReferenceNotFound(identifier) ==
    [type |-> "ReferenceNotFound", identifier |-> identifier]

StringLiteralHasNoProperties == [type |-> "StringLiteralHasNoProperties"]

(***************************************************************************)
(* AST (parse.rs)                                                          *)
(***************************************************************************)
StringLiteral(text) == [kind |-> "StringLiteral", text |-> text]

Compound(prototype, overrides) ==
    [kind |-> "Compound", prototype |-> prototype, overrides |-> overrides]

Reference(identifiers) == [identifiers |-> identifiers]

NamedObjects(identifiers, objects) ==
    [objects |-> objects, identifiers |-> identifiers]

\* HashMap::new()
EmptyMap == [k \in {} |-> 0]

\* HashMap::insert: an existing key's value is replaced
Insert(map, key, value) ==
    [k \in (DOMAIN map) \cup {key} |-> IF k = key THEN value ELSE map[k]]

(***************************************************************************)
(* Characters                                                              *)
(***************************************************************************)
\* char::is_whitespace, for the whitespace characters of the model's alphabet
Whitespace == {" ", "\n"}

IsWhitespace(c) == c \in Whitespace

\* the characters at which an identifier ends: the predicate of
\* parse_identifier is false exactly on these
IdentifierStops == Whitespace \cup {".", ":", "{", "}"}

\* the number of leading characters of s that are whitespace
RECURSIVE LeadingWhitespace(_)
LeadingWhitespace(s) ==
    IF s # <<>> /\ IsWhitespace(Head(s)) THEN 1 + LeadingWhitespace(Tail(s)) ELSE 0

trim_left(s) == SubSeq(s, LeadingWhitespace(s) + 1, Len(s))

(***************************************************************************)
(* Cursor primitives (parse.rs)                                            *)
(***************************************************************************)
skip_char(src, symbol) ==
    IF src # <<>> /\ Head(src) = symbol THEN Some(Tail(src)) ELSE None

expect_char(src, expected_symbol) ==
    LET skipped == skip_char(src, expected_symbol)
    IN  IF skipped.some THEN Ok(skipped.value)
        ELSE Err(UnexpectedSymbol(Some(expected_symbol), src))

\* <<parsed, remaining>>: split before the first character on which the
\* predicate is false; the predicate is given by the set `stops` of the
\* characters on which it is false
parse_chars_while(src, stops) ==
    LET found == {i \in 1..Len(src) : src[i] \in stops}
        at == IF found = {} THEN Len(src) + 1
              ELSE CHOOSE i \in found : \A j \in found : i <= j
    IN  <<SubSeq(src, 1, at - 1), SubSeq(src, at, Len(src))>>

\* (mutation) as parse_over_delimiter_char, but the error of expect_char is
\* returned as it is
parse_over_delimiter_char_unmapped(src, delimiter) ==
    LET split == parse_chars_while(src, {delimiter})
        rest == expect_char(split[2], delimiter)
    IN  IF rest.ok THEN Ok(<<split[1], rest.value>>)
        ELSE rest

parse_over_delimiter_char(src, delimiter) ==
    LET split == parse_chars_while(src, {delimiter})
        rest == expect_char(split[2], delimiter)
    IN  IF rest.ok THEN Ok(<<split[1], rest.value>>)
        ELSE Err(UnexpectedEndOfInput(Some(delimiter)))

skip(src, symbol) == skip_char(trim_left(src), symbol)

expect(src, expected_symbol) == expect_char(trim_left(src), expected_symbol)

parse_while(src, stops) == parse_chars_while(trim_left(src), stops)

\* (mutation) as parse_string_literal, but the text is trimmed on the left
parse_string_literal_trimming(src) ==
    LET skipped == skip(src, "'")
    IN  IF skipped.some
        THEN LET r == parse_over_delimiter_char(skipped.value, "'")
             IN  IF r.ok THEN Ok(<<Some(trim_left(r.value[1])), r.value[2]>>) ELSE r
        ELSE Ok(<<None, src>>)

\* Ok(<<Option<literal>, remaining>>)
parse_string_literal(src) ==
    LET skipped == skip(src, "'")
    IN  IF skipped.some
        THEN LET r == parse_over_delimiter_char(skipped.value, "'")
             IN  IF r.ok THEN Ok(<<Some(r.value[1]), r.value[2]>>) ELSE r
        ELSE Ok(<<None, src>>)

\* <<identifier, remaining>>
parse_identifier(src) == parse_while(trim_left(src), IdentifierStops)

\* (mutation) as parse_reference_loop, but an empty identifier behind a dot
\* is pushed like any other
RECURSIVE parse_reference_loop_pushing_empty(_, _)
parse_reference_loop_pushing_empty(identifiers, remaining) ==
    LET skipped == skip(remaining, ".")
    IN  IF skipped.some
        THEN LET next == parse_identifier(skipped.value)
             IN  parse_reference_loop_pushing_empty(Append(identifiers, next[1]),
                                                    next[2])
        ELSE <<identifiers, remaining>>

\* the while-let loop of parse_reference: <<identifiers, remaining>>
RECURSIVE parse_reference_loop(_, _)
parse_reference_loop(identifiers, remaining) ==
    LET skipped == skip(remaining, ".")
    IN  IF skipped.some
        THEN LET next == parse_identifier(skipped.value)
             IN  parse_reference_loop(
                     IF next[1] # <<>> THEN Append(identifiers, next[1])
                     ELSE identifiers,
                     next[2])
        ELSE <<identifiers, remaining>>

\* <<Reference, remaining>>
parse_reference(src) ==
    LET first == parse_identifier(src)
    IN  IF first[1] # <<>>
        THEN LET r == parse_reference_loop(<<first[1]>>, first[2])
             IN  <<Reference(r[1]), r[2]>>
        ELSE <<Reference(<<>>), first[2]>>

(***************************************************************************)
(* Recursive descent (parse.rs)                                            *)
(*                                                                         *)
(* The code after a `?` is an operator of its own (named ..._then), which  *)
(* takes the result the `?` is applied to.                                 *)
(***************************************************************************)
RECURSIVE parse_delimited_loop(_, _, _)
RECURSIVE parse_delimited_loop_then(_, _, _)
RECURSIVE parse_delimited_named_objects(_)
RECURSIVE parse_object(_)
RECURSIVE parse_named_object(_)

\* parse_named_object after `parse_object(source)?`
parse_named_object_then(name, object) ==
    IF ~object.ok THEN object
    ELSE Ok(<<name, object.value[1], object.value[2]>>)

\* Ok(<<name, object, remaining>>)
parse_named_object(src) ==
    LET id == parse_identifier(src)
        colon == expect(id[2], ":")
    IN  IF ~colon.ok THEN colon
        ELSE parse_named_object_then(id[1], parse_object(colon.value))

\* parse_object after `parse_delimited_named_objects(source)?`
parse_object_then(prototype, overrides) ==
    IF ~overrides.ok THEN overrides
    ELSE Ok(<<Compound(prototype, overrides.value[1]), overrides.value[2]>>)

\* Ok(<<object, remaining>>)
parse_object(src) ==
    LET literal == parse_string_literal(src)
    IN  IF ~literal.ok THEN literal
        ELSE IF literal.value[1].some
        THEN Ok(<<StringLiteral(literal.value[1].value), literal.value[2]>>)
        ELSE LET prototype == parse_reference(literal.value[2])
             IN  parse_object_then(prototype[1],
                                   parse_delimited_named_objects(prototype[2]))

\* the loop body of parse_delimited_named_objects after `parse_named_object(..)?`
parse_delimited_loop_then(names, objects, named) ==
    IF ~named.ok THEN named
    ELSE parse_delimited_loop(Insert(names, named.value[1], Len(objects)),
                              Append(objects, named.value[2]),
                              named.value[3])

\* (mutation) as parse_delimited_loop, but the end of the input is reported
\* the way expect_char reports a missing '}'
parse_delimited_loop_expecting(names, objects, remaining_source) ==
    LET remaining_objects == trim_left(remaining_source)
    IN  IF remaining_objects = <<>>
        THEN Err(UnexpectedSymbol(Some("}"), remaining_objects))
        ELSE LET skipped == skip(remaining_objects, "}")
             IN  IF skipped.some
                 THEN Ok(<<NamedObjects(names, objects), skipped.value>>)
                 ELSE parse_delimited_loop_then(names, objects,
                                                parse_named_object(remaining_objects))

\* the loop of parse_delimited_named_objects, entered after the '{'
parse_delimited_loop(names, objects, remaining_source) ==
    LET remaining_objects == trim_left(remaining_source)
    IN  IF remaining_objects = <<>>
        THEN Err(UnexpectedEndOfInput(Some("}")))
        ELSE LET skipped == skip(remaining_objects, "}")
             IN  IF skipped.some
                 THEN Ok(<<NamedObjects(names, objects), skipped.value>>)
                 ELSE parse_delimited_loop_then(names, objects,
                                                parse_named_object(remaining_objects))

\* Ok(<<NamedObjects, remaining>>)
parse_delimited_named_objects(src) ==
    LET skipped == skip(src, "{")
    IN  IF skipped.some THEN parse_delimited_loop(EmptyMap, <<>>, skipped.value)
        ELSE Ok(<<NamedObjects(EmptyMap, <<>>), src>>)

RECURSIVE parse_remaining_loop(_, _, _)

\* the loop body of parse_remaining_named_objects after `parse_named_object(..)?`
parse_remaining_loop_then(names, objects, named) ==
    IF ~named.ok THEN named
    ELSE parse_remaining_loop(Insert(names, named.value[1], Len(objects)),
                              Append(objects, named.value[2]),
                              named.value[3])

\* the loop of parse_remaining_named_objects
parse_remaining_loop(names, objects, src) ==
    LET remaining_objects == trim_left(src)
    IN  IF remaining_objects = <<>>
        THEN Ok(<<NamedObjects(names, objects), remaining_objects>>)
        ELSE parse_remaining_loop_then(names, objects,
                                       parse_named_object(remaining_objects))

parse_remaining_named_objects(src) == parse_remaining_loop(EmptyMap, <<>>, src)

\* pub fn parse: Ok(NamedObjects) or Err(ParseError)
parse(src) ==
    LET r == parse_remaining_named_objects(src)
    IN  IF r.ok THEN Ok(r.value[1]) ELSE r

(***************************************************************************)
(* Reference lookup (parse.rs)                                             *)
(***************************************************************************)
\* a failed `expect`: the thread panics
Panic(message) == [type |-> "Panic", message |-> message]

has_target(reference) ==
    /\ reference.identifiers # <<>>
    /\ \E i \in 1..Len(reference.identifiers) : reference.identifiers[i] # <<>>

\* (mutation) as resolve_reference_names, but the later segments are looked
\* up in the same table as the first one instead of the compound's overrides
RECURSIVE resolve_reference_names_same_scope(_, _)
resolve_reference_names_same_scope(self, identifiers) ==
    IF identifiers = <<>>
    THEN Err(Panic("resolve_reference_names: identifiers must not be empty"))
    ELSE IF Head(identifiers) \notin DOMAIN self.identifiers
    THEN Err(ReferenceNotFound(Head(identifiers)))
    ELSE IF Tail(identifiers) = <<>>
    THEN Ok(self.objects[self.identifiers[Head(identifiers)] + 1])
    ELSE IF self.objects[self.identifiers[Head(identifiers)] + 1].kind = "Compound"
    THEN resolve_reference_names_same_scope(self, Tail(identifiers))
    ELSE Err(StringLiteralHasNoProperties)

\* (mutation) as resolve_reference_names, but descending into a string
\* literal is reported as the next segment not being found
RECURSIVE resolve_reference_names_literal_not_found(_, _)
resolve_reference_names_literal_not_found(self, identifiers) ==
    IF identifiers = <<>>
    THEN Err(Panic("resolve_reference_names: identifiers must not be empty"))
    ELSE IF Head(identifiers) \notin DOMAIN self.identifiers
    THEN Err(ReferenceNotFound(Head(identifiers)))
    ELSE IF Tail(identifiers) = <<>>
    THEN Ok(self.objects[self.identifiers[Head(identifiers)] + 1])
    ELSE IF self.objects[self.identifiers[Head(identifiers)] + 1].kind = "Compound"
    THEN resolve_reference_names_literal_not_found(
             self.objects[self.identifiers[Head(identifiers)] + 1].overrides,
             Tail(identifiers))
    ELSE Err(ReferenceNotFound(Head(Tail(identifiers))))

\* Ok(&Object), Err(ResolveError) or Err(Panic)
RECURSIVE resolve_reference_names(_, _)
resolve_reference_names(self, identifiers) ==
    IF identifiers = <<>>
    THEN Err(Panic("resolve_reference_names: identifiers must not be empty"))
    ELSE LET first == Head(identifiers)
             sub_identifiers == Tail(identifiers)
         IN  IF first \notin DOMAIN self.identifiers
             THEN Err(ReferenceNotFound(first))
             ELSE LET index == self.identifiers[first]
                  IN  IF index >= Len(self.objects)
                      THEN Err(Panic("Invalid NamedObject::names Index"))
                      ELSE LET identified == self.objects[index + 1]
                           IN  IF sub_identifiers = <<>> THEN Ok(identified)
                               ELSE IF identified.kind = "Compound"
                               THEN resolve_reference_names(identified.overrides,
                                                            sub_identifiers)
                               ELSE Err(StringLiteralHasNoProperties)

resolve_reference(self, reference) ==
    resolve_reference_names(self, reference.identifiers)

(***************************************************************************)
(* Flattening (flat.rs)                                                    *)
(*                                                                         *)
(* fill_named_objects iterates over a HashMap, whose iteration order is    *)
(* unspecified: the loop below visits the entries of a table in any order, *)
(* and every operator yields the SET of results the call can return over   *)
(* all visiting orders.                                                    *)
(*                                                                         *)
(* The recursion has no cycle guard.  `active` holds the compounds whose   *)
(* build_from_parsed_unnamed_object call is on the stack and `chain` the   *)
(* compounds the current deep_fill_parsed_compound chain went through: a   *)
(* call that re-enters one of them repeats itself forever (the functions   *)
(* are pure, and a compound revisited on a chain finds all its names       *)
(* already filled), which is reported as the result StackOverflow.         *)
(***************************************************************************)
FlatStringLiteral(text) == [flat |-> "StringLiteral", text |-> text]

FlatCompound(properties) == [flat |-> "Compound", properties |-> properties]

StackOverflow == [type |-> "StackOverflow"]

RECURSIVE fill_named_objects_loop(_, _, _, _, _)
RECURSIVE deep_fill_parsed_compound(_, _, _, _, _)
RECURSIVE build_from_parsed_unnamed_object(_, _, _)

\* (mutation) as fill_named_objects_visit, but a name already present is
\* replaced
fill_named_objects_visit_overwriting(objects, world, properties, active, name) ==
    {IF r.ok THEN Ok(Insert(properties, name, r.value)) ELSE r :
        r \in build_from_parsed_unnamed_object(
                  objects.objects[objects.identifiers[name] + 1], world, active)}

\* (mutation) as fill_named_objects_visit, but an entry that fails to
\* resolve is left out instead of failing the call
fill_named_objects_visit_skipping_failures(objects, world, properties, active, name) ==
    IF name \in DOMAIN properties THEN {Ok(properties)}
    ELSE {IF r.ok THEN Ok(Insert(properties, name, r.value)) ELSE Ok(properties) :
             r \in build_from_parsed_unnamed_object(
                       objects.objects[objects.identifiers[name] + 1], world, active)}

\* one iteration of the for loop of fill_named_objects, for the entry `name`:
\* Ok(properties') or the Err the `?` returns
fill_named_objects_visit(objects, world, properties, active, name) ==
    IF name \in DOMAIN properties THEN {Ok(properties)}
    ELSE {IF r.ok THEN Ok(Insert(properties, name, r.value)) ELSE r :
             r \in build_from_parsed_unnamed_object(
                       objects.objects[objects.identifiers[name] + 1], world, active)}

\* the for loop after one iteration: an Err ends it, otherwise the entries
\* `remaining` are visited
fill_named_objects_next(objects, world, visited, active, remaining) ==
    {r \in visited : ~r.ok} \cup
    UNION {fill_named_objects_loop(objects, world, r.value, active, remaining) :
              r \in {v \in visited : v.ok}}

\* (mutation) as fill_named_objects_loop, but the loop ends at the first
\* name that is already present
fill_named_objects_loop_breaking(objects, world, properties, active, remaining) ==
    IF remaining = {} THEN {Ok(properties)}
    ELSE UNION {IF name \in DOMAIN properties THEN {Ok(properties)}
                ELSE fill_named_objects_next(
                         objects, world,
                         fill_named_objects_visit(objects, world, properties, active, name),
                         active, remaining \ {name}) :
                   name \in remaining}

\* the for loop of fill_named_objects with the entries `remaining` not yet
\* visited: any of them is the next one
fill_named_objects_loop(objects, world, properties, active, remaining) ==
    IF remaining = {} THEN {Ok(properties)}
    ELSE UNION {fill_named_objects_next(
                    objects, world,
                    fill_named_objects_visit(objects, world, properties, active, name),
                    active, remaining \ {name}) :
                   name \in remaining}

\* the results of filling `properties` from objects: Ok(properties') or Err
fill_named_objects(objects, world, properties, active) ==
    fill_named_objects_loop(objects, world, properties, active,
                            DOMAIN objects.identifiers)

build_from_parsed_named_objects(objects, world) ==
    fill_named_objects(objects, world, EmptyMap, {})

\* (mutation) as deep_fill_inherit, but a prototype that is a string
\* literal is an error
deep_fill_inherit_rejecting_literal(compound, world, own, active, chain) ==
    IF has_target(compound.prototype)
    THEN LET prototype == resolve_reference(world, compound.prototype)
         IN  IF ~prototype.ok THEN {prototype}
             ELSE IF prototype.value.kind = "Compound"
             THEN deep_fill_parsed_compound(prototype.value, world, own, active,
                                            chain \cup {compound})
             ELSE {Err(StringLiteralHasNoProperties)}
    ELSE {Ok(own)}

\* deep_fill_parsed_compound after its own overrides were filled into `own`
deep_fill_inherit(compound, world, own, active, chain) ==
    IF has_target(compound.prototype)
    THEN LET prototype == resolve_reference(world, compound.prototype)
         IN  IF ~prototype.ok THEN {prototype}
             ELSE IF prototype.value.kind = "Compound"
             THEN deep_fill_parsed_compound(prototype.value, world, own, active,
                                            chain \cup {compound})
             ELSE {Ok(own)}
    ELSE {Ok(own)}

\* deep_fill_parsed_compound after `fill_named_objects(..)?`
deep_fill_parsed_compound_then(compound, world, filled, active, chain) ==
    {r \in filled : ~r.ok} \cup
    UNION {deep_fill_inherit(compound, world, r.value, active, chain) :
              r \in {f \in filled : f.ok}}

deep_fill_parsed_compound(compound, world, properties, active, chain) ==
    IF compound \in chain THEN {Err(StackOverflow)}
    ELSE deep_fill_parsed_compound_then(
             compound, world,
             fill_named_objects(compound.overrides, world, properties, active),
             active, chain)

\* FlatObject::Compound(properties) around every successful result
AsFlatCompound(results) ==
    {IF r.ok THEN Ok(FlatCompound(r.value)) ELSE r : r \in results}

\* (mutation) as build_from_parsed_unnamed_object, without the inlining of
\* an override-free compound: such a compound is deep-filled like any other
build_from_parsed_unnamed_object_wrapping(object, world, active) ==
    IF object.kind = "StringLiteral" THEN {Ok(FlatStringLiteral(object.text))}
    ELSE IF object \in active THEN {Err(StackOverflow)}
    ELSE AsFlatCompound(
             deep_fill_parsed_compound(object, world, EmptyMap,
                                       active \cup {object}, {}))

build_from_parsed_unnamed_object(object, world, active) ==
    IF object.kind = "StringLiteral" THEN {Ok(FlatStringLiteral(object.text))}
    ELSE IF object \in active THEN {Err(StackOverflow)}
    ELSE IF object.overrides.objects = <<>> /\ has_target(object.prototype)
    THEN LET prototype == resolve_reference(world, object.prototype)
         IN  IF ~prototype.ok THEN {prototype}
             ELSE build_from_parsed_unnamed_object(
                      prototype.value, world, active \cup {object})
    ELSE AsFlatCompound(
             deep_fill_parsed_compound(object, world, EmptyMap,
                                       active \cup {object}, {}))

build_from_parsed(world) ==
    AsFlatCompound(build_from_parsed_named_objects(world, world))

(***************************************************************************)
(* State machine                                                           *)
(***************************************************************************)
MaxLen == 5

Alphabet == {"a", " ", "\n", ":", "{", "}", ".", "'"}

RECURSIVE SeqsUpTo(_, _)
SeqsUpTo(S, n) ==
    IF n = 0 THEN {<<>>}
    ELSE LET shorter == SeqsUpTo(S, n - 1)
         IN  shorter \cup {Append(s, c) : s \in {t \in shorter : Len(t) = n - 1}, c \in S}

Sources == SeqsUpTo(Alphabet, MaxLen)

NotYet == [ok |-> FALSE, error |-> [type |-> "NotYet"]]

Init ==
    /\ source \in Sources
    /\ pc = "start"
    /\ parsed = NotYet
    /\ resolved = NotYet

Parse ==
    /\ pc = "start"
    /\ parsed' = parse(source)
    /\ pc' = "parsed"
    /\ UNCHANGED <<source, resolved>>

Resolve ==
    /\ pc = "parsed"
    /\ parsed.ok
    /\ resolved' \in build_from_parsed(parsed.value)
    /\ pc' = "resolved"
    /\ UNCHANGED <<source, parsed>>

\* the same AST, not modified in between, is resolved once more
ResolveAgain ==
    /\ pc = "resolved"
    /\ pc' = "resolved_again"
    /\ resolved' \in build_from_parsed(parsed.value)
    /\ UNCHANGED <<source, parsed>>

Next == Parse \/ Resolve \/ ResolveAgain

Spec == Init /\ [][Next]_vars

(***************************************************************************)
(* Documents: the inputs of SpecDoc are the texts of small documents,      *)
(* written out in the grammar of parse.rs from a description               *)
(*   entry  = [name, object]                                               *)
(*   object = [t |-> "lit", text] | [t |-> "cmp", proto, entries].         *)
(***************************************************************************)
Lit(text) == [t |-> "lit", text |-> text]

Cmp(proto, entries) == [t |-> "cmp", proto |-> proto, entries |-> entries]

Entry(name, object) == [name |-> name, object |-> object]

RECURSIVE PrintReference(_)
PrintReference(ids) ==
    IF ids = <<>> THEN <<>>
    ELSE ids[1] \o (IF Len(ids) > 1 THEN <<".">> ELSE <<>>) \o PrintReference(Tail(ids))

RECURSIVE PrintObject(_)
RECURSIVE PrintEntries(_)
PrintObject(o) ==
    IF o.t = "lit" THEN <<"'">> \o o.text \o <<"'">>
    ELSE PrintReference(o.proto) \o
         (IF o.entries = <<>> /\ o.proto # <<>> THEN <<>>
          ELSE <<"{">> \o PrintEntries(o.entries) \o <<"}">>)

PrintEntries(es) ==
    IF es = <<>> THEN <<>>
    ELSE es[1].name \o <<":">> \o PrintObject(es[1].object) \o
         (IF Len(es) > 1 THEN <<" ">> ELSE <<>>) \o PrintEntries(Tail(es))

MaxTop == 2

TopNames == <<<<"a">>, <<"b">>, <<"c">>, <<"d">>, <<"e">>>>

Ref1(n) == <<n>>

Ref2(n, m) == <<n, m>>

Zero == Lit(<<"0">>)

One == Lit(<<"1">>)

Alias(ref) == Cmp(ref, <<>>)

\* references used as a whole object: c is declared only by a third entry
AliasRefs ==
    {Ref1(<<"a">>), Ref1(<<"b">>), Ref1(<<"c">>), Ref2(<<"a">>, <<"x">>),
     Ref2(<<"a">>, <<"y">>), <<<<"a">>, <<"x">>, <<"y">>>>}

ProtoRefs == {<<>>, Ref1(<<"a">>), Ref2(<<"a">>, <<"x">>)}

\* override blocks: one or two entries, a duplicate name, a reference to the
\* top-level object a, a nested compound, a reference to a sibling override
OverrideLists ==
    {<<Entry(<<"x">>, One)>>,
     <<Entry(<<"y">>, One)>>,
     <<Entry(<<"x">>, Zero), Entry(<<"y">>, Zero)>>,
     <<Entry(<<"x">>, Zero), Entry(<<"x">>, One)>>,
     <<Entry(<<"x">>, Alias(Ref1(<<"a">>)))>>,
     <<Entry(<<"x">>, Cmp(<<>>, <<Entry(<<"y">>, Zero)>>))>>,
     <<Entry(<<"x">>, Zero), Entry(<<"y">>, Alias(Ref2(<<"a">>, <<"x">>)))>>}

TopObjects ==
    {Zero, One} \cup {Alias(r) : r \in AliasRefs} \cup
    {Cmp(r, es) : r \in ProtoRefs, es \in OverrideLists}

\* an entry is named by one of the names used before it or by the next new one
RECURSIVE TopLists(_)
TopLists(n) ==
    IF n = 0 THEN {<<>>}
    ELSE LET shorter == TopLists(n - 1)
             used(es) == Cardinality({es[j].name : j \in 1..Len(es)})
         IN  shorter \cup
             {Append(t[1], Entry(TopNames[t[2]], t[3])) :
                 t \in {u \in {l \in shorter : Len(l) = n - 1} \X (1..n) \X TopObjects :
                           u[2] <= used(u[1]) + 1}}

Documents == {PrintEntries(es) : es \in TopLists(MaxTop)}

InitDoc ==
    /\ source \in Documents
    /\ pc = "start"
    /\ parsed = NotYet
    /\ resolved = NotYet

SpecDoc == InitDoc /\ [][Next]_vars

(***************************************************************************)
(* Helpers of the properties                                               *)
(***************************************************************************)
Resolved == pc = "resolved"

\* the object a lookup table gives for name n
Lookup(objects, n) == objects.objects[objects.identifiers[n] + 1]

IsCompound(object) == object.kind = "Compound"

HasOverrides(object) == IsCompound(object) /\ object.overrides.objects # <<>>

\* the only successful result among results, when there is one
OnlyOk(results) ==
    IF \E r \in results : r.ok THEN Some((CHOOSE r \in results : r.ok).value)
    ELSE None

\* the flattened value of object resolved alone, when it resolves
Flat(object, world) == OnlyOk(build_from_parsed_unnamed_object(object, world, {}))

\* the prototype chain of a compound: the compound, its prototype, the
\* prototype's prototype, ...; complete when it ends in a compound without
\* prototype and every reference on the way resolved to a compound
ChainCons(compound, rest) ==
    [complete |-> rest.complete, compounds |-> <<compound>> \o rest.compounds]

RECURSIVE PrototypeChain(_, _, _)
PrototypeChain(compound, world, seen) ==
    IF ~has_target(compound.prototype)
    THEN [complete |-> TRUE, compounds |-> <<compound>>]
    ELSE LET target == resolve_reference(world, compound.prototype)
         IN  IF ~target.ok \/ compound \in seen
             THEN [complete |-> FALSE, compounds |-> <<compound>>]
             ELSE IF ~IsCompound(target.value)
             THEN [complete |-> FALSE, compounds |-> <<compound>>]
             ELSE ChainCons(compound,
                            PrototypeChain(target.value, world, seen \cup {compound}))

\* the index in the chain of the nearest compound declaring name k
Nearest(chain, k) ==
    CHOOSE i \in 1..Len(chain) :
        /\ k \in DOMAIN chain[i].overrides.identifiers
        /\ \A j \in 1..(i - 1) : k \notin DOMAIN chain[j].overrides.identifiers

ChainNames(chain) ==
    UNION {DOMAIN chain[i].overrides.identifiers : i \in 1..Len(chain)}

(***************************************************************************)
(* C1  Override precedence along the prototype chain: a compound with own  *)
(* overrides whose prototype chain consists of compounds flattens to the   *)
(* mapping whose keys are the override names of all compounds on the chain *)
(* and whose value under each key is the resolution of the entry declared  *)
(* by the nearest compound on the chain declaring that name.               *)
(***************************************************************************)
PrecedenceAt(object, flat, world) ==
    LET chain == PrototypeChain(object, world, {})
    IN  (HasOverrides(object) /\ chain.complete) =>
            /\ flat.flat = "Compound"
            /\ DOMAIN flat.properties = ChainNames(chain.compounds)
            /\ \A k \in ChainNames(chain.compounds) :
                  Flat(Lookup(chain.compounds[Nearest(chain.compounds, k)].overrides, k),
                       world) = Some(flat.properties[k])

C1_OverridePrecedence ==
    (Resolved /\ resolved.ok) =>
        \A n \in DOMAIN parsed.value.identifiers :
            LET object == Lookup(parsed.value, n)
                flat == resolved.value.properties[n]
            IN  /\ PrecedenceAt(object, flat, parsed.value)
                \* the compounds declared inside a top-level compound
                /\ HasOverrides(object) =>
                      \A k \in DOMAIN object.overrides.identifiers :
                          PrecedenceAt(Lookup(object.overrides, k),
                                       flat.properties[k], parsed.value)

\* a derived compound that overrides one name of its prototype with another
\* value and inherits another name from it
C1_Witness ==
    /\ Resolved /\ resolved.ok
    /\ \E n \in DOMAIN parsed.value.identifiers :
          LET object == Lookup(parsed.value, n)
              chain == PrototypeChain(object, parsed.value, {})
              own == DOMAIN object.overrides.identifiers
          IN  /\ HasOverrides(object) /\ chain.complete /\ Len(chain.compounds) >= 2
              /\ \E k \in ChainNames(chain.compounds) : k \notin own
              /\ \E k \in own :
                    /\ k \in DOMAIN chain.compounds[2].overrides.identifiers
                    /\ Flat(Lookup(chain.compounds[2].overrides, k), parsed.value)
                           # Some(resolved.value.properties[n].properties[k])

(***************************************************************************)
(* The objects a resolution reaches, with their flattened values           *)
(***************************************************************************)
IsAlias(object) ==
    /\ IsCompound(object)
    /\ object.overrides.objects = <<>>
    /\ has_target(object.prototype)

\* <<object, flat>>: the top-level objects a lookup table names and the
\* objects declared inside the top-level compounds with own overrides, each
\* with its value in the resolved tree
TopFlats(world, tree) ==
    {<<Lookup(world, n), tree.properties[n]>> : n \in DOMAIN world.identifiers}

NestedFlats(world, tree) ==
    UNION {{<<Lookup(p[1].overrides, k), p[2].properties[k]>> :
               k \in DOMAIN p[1].overrides.identifiers} :
           p \in {q \in TopFlats(world, tree) : HasOverrides(q[1])}}

ObjectFlats(world, tree) == TopFlats(world, tree) \cup NestedFlats(world, tree)

\* the value found in a resolved tree along a path of property names
RECURSIVE Navigate(_, _)
Navigate(flat, names) ==
    IF names = <<>> THEN flat
    ELSE Navigate(flat.properties[Head(names)], Tail(names))

(***************************************************************************)
(* C2  Alias inlining: a compound without overrides whose prototype        *)
(* reference resolves is resolved to exactly the value of the referenced   *)
(* object (a StringLiteral for a literal, the flattened mapping for a      *)
(* compound), also through several aliases; no wrapper compound is made.   *)
(***************************************************************************)
C2_AliasInlining ==
    (Resolved /\ resolved.ok) =>
        \A p \in ObjectFlats(parsed.value, resolved.value) :
            LET target == resolve_reference(parsed.value, p[1].prototype)
            IN  (IsAlias(p[1]) /\ target.ok) =>
                    /\ Some(p[2]) = Flat(target.value, parsed.value)
                    /\ p[2] = Navigate(resolved.value, p[1].prototype.identifiers)
                    /\ target.value.kind = "StringLiteral" =>
                           p[2] = FlatStringLiteral(target.value.text)

\* an alias of an alias of a string literal
C2_Witness ==
    /\ Resolved /\ resolved.ok
    /\ \E p \in ObjectFlats(parsed.value, resolved.value) :
          /\ IsAlias(p[1])
          /\ IsAlias(resolve_reference(parsed.value, p[1].prototype).value)
          /\ p[2].flat = "StringLiteral"

(***************************************************************************)
(* The references a resolution looks up                                    *)
(***************************************************************************)
\* the objects reachable through the lookup tables: each of them is resolved
\* unless an error ends the resolution before
RECURSIVE LiveObjects(_)
LiveObjects(objects) ==
    LET named == {Lookup(objects, n) : n \in DOMAIN objects.identifiers}
    IN  named \cup UNION {LiveObjects(o.overrides) : o \in {c \in named : IsCompound(c)}}

\* their prototype references, as sequences of identifiers
LiveReferences(world) ==
    {o.prototype.identifiers :
        o \in {c \in LiveObjects(world) : IsCompound(c) /\ has_target(c.prototype)}}

\* Following the first i segments of a reference through the DECLARED names
\* only: the first segment among the top-level names, every later one among
\* the overrides declared by the compound the previous segment led to.
\*   found:   segment i is declared, and names `object`
\*   missing: segment `at` is not declared where it is looked up
\*   literal: segment `at` names a string literal and a segment follows it
WalkStep(previous, identifiers, i) ==
    IF previous.status # "found" THEN previous
    ELSE IF ~IsCompound(previous.object) THEN [status |-> "literal", at |-> i - 1]
    ELSE IF identifiers[i] \in DOMAIN previous.object.overrides.identifiers
    THEN [status |-> "found", object |-> Lookup(previous.object.overrides, identifiers[i])]
    ELSE [status |-> "missing", at |-> i]

RECURSIVE WalkTo(_, _, _)
WalkTo(world, identifiers, i) ==
    IF i = 1
    THEN IF identifiers[1] \in DOMAIN world.identifiers
         THEN [status |-> "found", object |-> Lookup(world, identifiers[1])]
         ELSE [status |-> "missing", at |-> 1]
    ELSE WalkStep(WalkTo(world, identifiers, i - 1), identifiers, i)

Walk(world, identifiers) == WalkTo(world, identifiers, Len(identifiers))

\* the errors of the references that do not resolve
LookupFailures(world) ==
    {f.error : f \in {g \in {resolve_reference_names(world, r) : r \in LiveReferences(world)} :
                         ~g.ok}}

(***************************************************************************)
(* C3  Dotted-reference scoping: the first segment of a reference is       *)
(* looked up among the top-level names and every later segment only among  *)
(* the overrides declared by the compound the previous segment led to.  A  *)
(* path of declared names resolves to the object declared there; a segment *)
(* the compound does not declare fails with ReferenceNotFound for that     *)
(* segment, also when the compound inherits a property of that name.       *)
(***************************************************************************)
C3_DottedScoping ==
    Resolved =>
        \A r \in LiveReferences(parsed.value) :
            LET walk == Walk(parsed.value, r)
                found == resolve_reference_names(parsed.value, r)
            IN  /\ walk.status = "found" => found = Ok(walk.object)
                /\ walk.status = "missing" =>
                      /\ found = Err(ReferenceNotFound(r[walk.at]))
                      /\ ~resolved.ok

\* a reference a.y where the compound a does not declare y but inherits it:
\* the flattened value of a has the property, the reference is not found
C3_Witness ==
    /\ Resolved
    /\ \E r \in LiveReferences(parsed.value) :
          LET walk == Walk(parsed.value, r)
          IN  /\ walk.status = "missing" /\ walk.at >= 2
              /\ resolved = Err(ReferenceNotFound(r[walk.at]))
              /\ LET holder == WalkTo(parsed.value, r, walk.at - 1).object
                     flat == Flat(holder, parsed.value)
                 IN  /\ flat.some
                     /\ flat.value.flat = "Compound"
                     /\ r[walk.at] \in DOMAIN flat.value.properties

(***************************************************************************)
(* C5  Missing reference: when a reference that is looked up has a segment *)
(* that is not a key of the table it is looked up in, resolve returns no   *)
(* FlatObject; a ReferenceNotFound it returns carries the identifier of    *)
(* such a segment, and it is the error returned when no other lookup       *)
(* fails.                                                                  *)
(***************************************************************************)
MissingSegments(world) ==
    {r[Walk(world, r).at] : r \in {q \in LiveReferences(world) :
                                      Walk(world, q).status = "missing"}}

C5_MissingReference ==
    Resolved =>
        /\ MissingSegments(parsed.value) # {} => ~resolved.ok
        /\ \A id \in MissingSegments(parsed.value) :
              /\ ReferenceNotFound(id) \in LookupFailures(parsed.value)
              /\ (LookupFailures(parsed.value) = {ReferenceNotFound(id)}
                  /\ resolved.error.type # "StackOverflow")
                     => resolved = Err(ReferenceNotFound(id))
        /\ (~resolved.ok /\ resolved.error.type = "ReferenceNotFound") =>
              resolved.error.identifier \in MissingSegments(parsed.value)

\* a first segment that names nothing, beside an object that resolves
C5_Witness ==
    /\ Resolved
    /\ \E r \in LiveReferences(parsed.value) :
          /\ Walk(parsed.value, r).status = "missing"
          /\ Walk(parsed.value, r).at = 1
          /\ resolved = Err(ReferenceNotFound(r[1]))
    /\ \E n \in DOMAIN parsed.value.identifiers :
          Flat(Lookup(parsed.value, n), parsed.value).some

(***************************************************************************)
(* C6  Descending into a literal: a reference with a segment that names a  *)
(* string literal and is followed by another segment fails with            *)
(* StringLiteralHasNoProperties, not with ReferenceNotFound; a reference   *)
(* whose last segment names a literal resolves to that literal.            *)
(***************************************************************************)
C6_LiteralHasNoProperties ==
    Resolved =>
        /\ \A r \in LiveReferences(parsed.value) :
              LET walk == Walk(parsed.value, r)
                  found == resolve_reference_names(parsed.value, r)
              IN  /\ walk.status = "literal" =>
                        /\ found = Err(StringLiteralHasNoProperties)
                        /\ ~resolved.ok
                  /\ (walk.status = "found" /\ ~IsCompound(walk.object)) =>
                        found = Ok(StringLiteral(walk.object.text))
        /\ (~resolved.ok /\ resolved.error = StringLiteralHasNoProperties) =>
              \E r \in LiveReferences(parsed.value) :
                  Walk(parsed.value, r).status = "literal"
        /\ (LookupFailures(parsed.value) = {StringLiteralHasNoProperties}
            /\ resolved.error.type # "StackOverflow")
               => resolved = Err(StringLiteralHasNoProperties)

\* a reference a.x where a is a string literal
C6_Witness ==
    /\ Resolved
    /\ resolved = Err(StringLiteralHasNoProperties)
    /\ \E r \in LiveReferences(parsed.value) :
          /\ Walk(parsed.value, r).status = "literal"
          /\ Len(r) > Walk(parsed.value, r).at

(***************************************************************************)
(* C4  First-match-wins on duplicate names: at every level (top level or   *)
(* one { } block) the lookup table parse returns maps each declared name   *)
(* to the index of the FIRST declaration of that name.                     *)
(***************************************************************************)
\* the documents the sources of SpecDoc are printed from
DocumentEntries == TopLists(MaxTop)

\* the position in entries of the first declaration of name
FirstDeclaration(entries, name) ==
    CHOOSE i \in 1..Len(entries) :
        /\ entries[i].name = name
        /\ \A j \in 1..(i - 1) : entries[j].name # name

\* the table of the level entries, and of every level below it, maps each
\* name to its first declaration
RECURSIVE FirstMatchWins(_, _)
FirstMatchWins(entries, table) ==
    \A i \in 1..Len(entries) :
        /\ table.identifiers[entries[i].name] + 1
               = FirstDeclaration(entries, entries[i].name)
        /\ entries[i].object.t = "cmp" =>
               FirstMatchWins(entries[i].object.entries, table.objects[i].overrides)

C4_FirstMatchWins ==
    (pc # "start" /\ parsed.ok) =>
        \A es \in DocumentEntries :
            (Len(es) = Len(parsed.value.objects) /\ source = PrintEntries(es)) =>
                FirstMatchWins(es, parsed.value)

(***************************************************************************)
(* C10  Termination of resolution: for every parsed document in which no   *)
(* prototype chain names itself directly or transitively, resolve returns  *)
(* a FlatObject or a ResolveError (its recursion does not run forever).    *)
(***************************************************************************)
\* following the prototype references from object leads back to a compound
\* already passed
RECURSIVE PrototypeCycleFrom(_, _, _)
PrototypeCycleFrom(object, world, seen) ==
    IF ~IsCompound(object) THEN FALSE
    ELSE IF ~has_target(object.prototype) THEN FALSE
    ELSE IF object \in seen THEN TRUE
    ELSE IF ~resolve_reference(world, object.prototype).ok THEN FALSE
    ELSE PrototypeCycleFrom(resolve_reference(world, object.prototype).value,
                            world, seen \cup {object})

NoPrototypeCycle(world) ==
    \A o \in LiveObjects(world) : ~PrototypeCycleFrom(o, world, {})

C10_ResolutionTerminates ==
    (Resolved /\ NoPrototypeCycle(parsed.value)) =>
        \/ resolved.ok
        \/ resolved.error.type \in {"ReferenceNotFound", "StringLiteralHasNoProperties"}

(***************************************************************************)
(* Positions in the source text                                            *)
(***************************************************************************)
\* k closing braces
RECURSIVE Closing(_)
Closing(k) == IF k = 0 THEN <<>> ELSE <<"}">> \o Closing(k - 1)

\* src[i..j] consists of whitespace (it may be empty)
AllWhitespace(src, i, j) == \A n \in i..j : IsWhitespace(src[n])

\* src[i..j] contains no quote
NoQuote(src, i, j) == \A n \in i..j : src[n] # "'"

\* the text src closed by k braces is a document
ClosedBy(src, k) == parse(src \o Closing(k)).ok

(***************************************************************************)
(* C7 (as stated)  Unterminated braces: for every input in which a '{' is  *)
(* opened and the input ends before its matching '}' appears, parse fails  *)
(* with UnexpectedEndOfInput{expected: Some('}')}.  Stated for the '{' at   *)
(* a position i where the text up to it, closed at once, is a document,    *)
(* and that is followed by names and whitespace only.                      *)
(***************************************************************************)
OpenedAt(src, i) ==
    /\ src[i] = "{"
    /\ \E k \in 1..i : ClosedBy(SubSeq(src, 1, i), k)
    /\ \A n \in (i + 1)..Len(src) : src[n] \notin {"{", "}", "'", ":", "."}

C7_UnterminatedBrace ==
    pc # "start" =>
        \A i \in 1..Len(source) :
            OpenedAt(source, i) => parsed = Err(UnexpectedEndOfInput(Some("}")))

(***************************************************************************)
(* C7 (amended)  Every input that is a document cut off before the closing *)
(* braces at its end, that is every input that one or more '}' appended to *)
(* it make a document, fails with UnexpectedEndOfInput{expected:           *)
(* Some('}')}.                                                             *)
(***************************************************************************)
CutOff(src) == \E k \in 1..Len(src) : ClosedBy(src, k)

C7_CutOffBraces ==
    pc # "start" =>
        (CutOff(source) => parsed = Err(UnexpectedEndOfInput(Some("}"))))

\* two blocks are open at the end of the input
C7_Witness ==
    /\ pc # "start"
    /\ ClosedBy(source, 2)
    /\ parsed = Err(UnexpectedEndOfInput(Some("}")))

(***************************************************************************)
(* C8  Unterminated string literal: when an object position starts, after  *)
(* optional whitespace, with a quote and no further quote occurs before    *)
(* the end of the input, parse fails with UnexpectedEndOfInput{expected:   *)
(* Some('\'')}, whatever follows the quote.  An object position is behind  *)
(* the ':' of an entry: the text before the quote ends (whitespace aside)  *)
(* with a ':' and, continued by an empty literal and closing braces, is a  *)
(* document.                                                               *)
(***************************************************************************)
ObjectPosition(src, i) ==
    /\ \E c \in 1..(i - 1) : src[c] = ":" /\ AllWhitespace(src, c + 1, i - 1)
    /\ \E k \in 0..i : ClosedBy(SubSeq(src, 1, i - 1) \o <<"'", "'">>, k)

UnterminatedAt(src, i) ==
    /\ src[i] = "'"
    /\ NoQuote(src, i + 1, Len(src))
    /\ ObjectPosition(src, i)

C8_UnterminatedLiteral ==
    pc # "start" =>
        \A i \in 1..Len(source) :
            UnterminatedAt(source, i) => parsed = Err(UnexpectedEndOfInput(Some("'")))

\* the opening quote is followed by a brace, a colon or a newline
C8_Witness ==
    /\ pc # "start"
    /\ parsed = Err(UnexpectedEndOfInput(Some("'")))
    /\ \E i \in 1..(Len(source) - 1) :
          /\ UnterminatedAt(source, i)
          /\ source[Len(source)] \in {"{", "}", ":", "\n"}

(***************************************************************************)
(* C9  Round-trip on literals: a document that declares one top-level name *)
(* with the quoted literal 's', s without a quote, parses, and resolves to *)
(* the top-level compound that maps the name to StringLiteral(s), s        *)
(* unchanged.                                                              *)
(***************************************************************************)
\* src is  name : 's'  with optional whitespace around its four parts:
\* the colon is src[c], the quotes are src[d] and src[e]
LiteralAt(src, c, d, e) ==
    /\ src[c] = ":"
    /\ AllWhitespace(src, c + 1, d - 1)
    /\ src[d] = "'"
    /\ NoQuote(src, d + 1, e - 1)
    /\ src[e] = "'"
    /\ AllWhitespace(src, e + 1, Len(src))

\* and the name is src[a..b]
NameAt(src, a, b, c) ==
    /\ AllWhitespace(src, 1, a - 1)
    /\ \A n \in a..b : src[n] \notin IdentifierStops
    /\ AllWhitespace(src, b + 1, c - 1)

\* the text of the name and of the literal
LiteralDocuments(src) ==
    {<<SubSeq(src, t[1], t[2]), SubSeq(src, t[4] + 1, t[5] - 1)>> :
        t \in {u \in {<<a, b>> \o v :
                        a \in 1..Len(src), b \in 1..Len(src),
                        v \in {w \in (1..Len(src)) \X (1..Len(src)) \X (1..Len(src)) :
                                  /\ w[1] < w[2] /\ w[2] < w[3]
                                  /\ LiteralAt(src, w[1], w[2], w[3])}} :
                  /\ u[1] <= u[2] /\ u[2] < u[3]
                  /\ NameAt(src, u[1], u[2], u[3])}}

C9_LiteralRoundTrip ==
    pc # "start" =>
        \A t \in LiteralDocuments(source) :
            /\ parsed.ok
            /\ Resolved =>
                  resolved = Ok(FlatCompound([n \in {t[1]} |-> FlatStringLiteral(t[2])]))

\* the literal is a whitespace, a brace, a colon or a dot
C9_Witness ==
    /\ Resolved
    /\ resolved.ok
    /\ \E t \in LiteralDocuments(source) :
          /\ t[1] = <<"a">>
          /\ Len(t[2]) = 1
          /\ t[2][1] \in {" ", "\n", "{", "}", ":", "."}

(***************************************************************************)
(* C11  Idempotence of resolution: when the same unmodified AST is         *)
(* resolved twice and one of the two calls returns a FlatObject tree, the  *)
(* other returns the equal tree, whatever the order in which the entries   *)
(* of the name tables are visited in either call.                          *)
(***************************************************************************)
C11_Idempotence ==
    [][(pc = "resolved" /\ pc' = "resolved_again" /\ (resolved.ok \/ resolved'.ok))
           => resolved' = resolved]_vars

\* resolved twice, and some table with several names was visited with one
\* of its names already filled in by a nearer compound
C11_Witness ==
    /\ pc = "resolved_again"
    /\ resolved.ok
    /\ \E o \in {c \in LiveObjects(parsed.value) : HasOverrides(c)} :
          LET chain == PrototypeChain(o, parsed.value, {})
          IN  /\ chain.complete
              /\ Len(chain.compounds) >= 2
              /\ Cardinality(DOMAIN chain.compounds[2].overrides.identifiers) >= 2
              /\ \E n \in DOMAIN chain.compounds[2].overrides.identifiers :
                    n \in DOMAIN chain.compounds[1].overrides.identifiers

(***************************************************************************)
(* C12  Literal prototype with own overrides: a compound with at least one *)
(* own override whose prototype reference resolves to a string literal     *)
(* resolves to the compound of exactly its own resolved overrides; the     *)
(* literal contributes no property, is not inlined and raises no error     *)
(* (the only errors are those of the compound's own overrides).            *)
(***************************************************************************)
\* object has own overrides and a prototype that resolves to a literal
HasLiteralPrototype(object, world) ==
    /\ HasOverrides(object)
    /\ has_target(object.prototype)
    /\ resolve_reference(world, object.prototype).ok
    /\ resolve_reference(world, object.prototype).value.kind = "StringLiteral"

\* the results of resolving each own override of object
OwnResults(object, world) ==
    [n \in DOMAIN object.overrides.identifiers |->
        build_from_parsed_unnamed_object(Lookup(object.overrides, n), world, {})]

OwnResolve(own) == \A n \in DOMAIN own : \E r \in own[n] : r.ok

C12_LiteralPrototype ==
    Resolved =>
        \A o \in LiveObjects(parsed.value) :
            HasLiteralPrototype(o, parsed.value) =>
                LET results == build_from_parsed_unnamed_object(o, parsed.value, {})
                    own == OwnResults(o, parsed.value)
                IN  /\ OwnResolve(own) =>
                          results = {Ok(FlatCompound(
                                        [n \in DOMAIN own |->
                                            (CHOOSE r \in own[n] : r.ok).value]))}
                    /\ \A r \in results :
                          ~r.ok => \E n \in DOMAIN own : r \in own[n]
                    /\ resolved.ok => OwnResolve(own)

\* the document resolves and has such a compound
C12_Witness ==
    /\ Resolved
    /\ resolved.ok
    /\ \E o \in LiveObjects(parsed.value) : HasLiteralPrototype(o, parsed.value)

(***************************************************************************)
(* C13  Fail-fast in declaration order: when several entries of a          *)
(* NamedObjects fail to resolve, the error resolve returns is the one      *)
(* raised by the earliest-declared failing entry.  Stated for the          *)
(* top-level table of documents whose resolution always returns.           *)
(***************************************************************************)
\* the names of the top-level entries that fail to resolve
FailingEntries(world) ==
    {n \in DOMAIN world.identifiers :
        \A r \in build_from_parsed_unnamed_object(Lookup(world, n), world, {}) : ~r.ok}

\* the one of them declared first
EarliestFailing(world) ==
    CHOOSE n \in FailingEntries(world) :
        \A m \in FailingEntries(world) : world.identifiers[n] <= world.identifiers[m]

AlwaysReturns(world) ==
    \A r \in build_from_parsed(world) : r.ok \/ r.error.type # "StackOverflow"

C13_DeclarationOrder ==
    (Resolved /\ ~resolved.ok /\ AlwaysReturns(parsed.value)) =>
        resolved \in build_from_parsed_unnamed_object(
                         Lookup(parsed.value, EarliestFailing(parsed.value)),
                         parsed.value, {})

(***************************************************************************)
(* C14  AST well-formedness and panic-freedom of lookups: in every AST     *)
(* parse returns, in every NamedObjects (top level and every overrides     *)
(* block) each index of the lookup table is smaller than the length of the *)
(* object sequence, and every Reference holds nonempty identifiers only;   *)
(* no resolution of a parsed AST fails one of the two `expect` assertions  *)
(* of resolve_reference_names.                                             *)
(***************************************************************************)
RECURSIVE WellFormed(_)
WellFormed(objects) ==
    /\ \A n \in DOMAIN objects.identifiers :
          objects.identifiers[n] < Len(objects.objects)
    /\ \A i \in 1..Len(objects.objects) :
          IsCompound(objects.objects[i]) =>
              /\ \A j \in 1..Len(objects.objects[i].prototype.identifiers) :
                    objects.objects[i].prototype.identifiers[j] # <<>>
              /\ WellFormed(objects.objects[i].overrides)

C14_WellFormedNoPanic ==
    (pc # "start" /\ parsed.ok) =>
        /\ WellFormed(parsed.value)
        /\ \A r \in build_from_parsed(parsed.value) :
              r.ok \/ r.error.type # "Panic"
        /\ pc # "parsed" => (resolved.ok \/ resolved.error.type # "Panic")

\* a resolved document with a reference behind whose last dot no identifier
\* follows
C14_Witness ==
    /\ Resolved
    /\ source # <<>>
    /\ source[Len(source)] = "."
    /\ \E i \in 1..Len(parsed.value.objects) :
          /\ IsCompound(parsed.value.objects[i])
          /\ has_target(parsed.value.objects[i].prototype)
    /\ resolved.ok \/ resolved.error.type # "StackOverflow"

====
